---- MODULE Spec2Model ----
(***************************************************************************)
(* Model of the build step of ungoogled-chromium-windows (onlybuild.py):   *)
(* the toolchain provisioning, the build-config generation, the pipeline   *)
(* of main() and the bounded-wait process supervisor.                      *)
(***************************************************************************)
EXTENDS Integers, Sequences, FiniteSets, TLC

VARIABLES
    \* ---- the host and the files on disk (persist between invocations)
    sourceTree,   \* build/src exists
    host64,       \* HOST_CPU_IS_64BIT
    marker,       \* third_party/rust-toolchain/INSTALLED_VERSION: "absent", "empty", "populated"
    dstDirs,      \* the target dirs of third_party/rust-toolchain that exist, subset of {"bin","lib"}
    dstBin,       \* files of rust-toolchain/bin, each [name, origin]
    dstLib,       \* files of rust-toolchain/lib, each [name, origin]
    outDir,       \* out/Default exists
    argsGn,       \* out/Default/args.gn: NoFile or its text
    gnExe,        \* out/Default/gn.exe exists
    bindgenExe,   \* third_party/rust-toolchain/bin/bindgen.exe exists
    baseDoc,      \* text of ungoogled-chromium/flags.gn
    overlayDoc,   \* text of flags.windows.gn
    \* ---- one invocation of main()
    args,         \* the parsed command line
    pc,           \* the position of main()
    result,       \* how the invocation ended
    steps,        \* the steps this invocation has started, in order
    failed,       \* the first step of this invocation that failed, or "none"
    rustCall,     \* what the last call of _setup_rust_toolchain did
    genSel,       \* the arguments of the call that wrote args.gn in full
    \* ---- the child process of _run_build_process_timeout
    proc,         \* "none", "running", "exited", "killed"
    returncode,   \* proc.returncode once the child has exited
    sigSent,      \* interrupt signals sent so far
    graceElapsed, \* seconds waited in proc.wait(10)
    elapsed,      \* seconds gone by since proc.wait(timeout) raised TimeoutExpired
    killCalled,   \* proc.kill() was called
    exitSig,      \* sigSent at the moment the child exited by itself, -1 before
    timedOut,     \* proc.wait(timeout) raised TimeoutExpired
    \* ---- observations kept for the properties
    genOwed,      \* the last gn gen failed and none has succeeded since
    fresh,        \* this invocation started on a workspace with no provisioning at all
    pkg,          \* how package.py ended in this invocation: "none", "ok", "nonzero"
    \* ---- the environment of the scripts
    tmpDirs,      \* which of the directories named by %TMP% and %TEMP% exist
    \* ---- the patch step (onlypatch.py)
    tarball,      \* args.tarball
    pruned,       \* files of the pruning list removed from the source tree
    unremovable,  \* what prune_files returned in this invocation
    ugPatched,    \* the ungoogled-chromium patch series has been applied to the tree
    winPatched,   \* the Windows patch series has been applied to the tree
    domSubbed     \* the domain substitution has been applied to the tree

fsVars   == <<sourceTree, host64, marker, dstDirs, dstBin, dstLib, outDir, argsGn,
             gnExe, bindgenExe>>
docVars  == <<baseDoc, overlayDoc>>
runVars  == <<args, pc, result, steps, failed>>
histVars == <<rustCall, genSel>>
supVars  == <<proc, returncode, sigSent, graceElapsed, elapsed, killCalled, exitSig,
             timedOut>>
obsVars  == <<genOwed, fresh, pkg>>
envVars  == <<tmpDirs>>
patchVars == <<tarball, pruned, unremovable, ugPatched, winPatched, domSubbed>>
vars     == <<fsVars, docVars, runVars, histVars, supVars, obsVars, envVars, patchVars>>

----------------------------------------------------------------------------
\* Bounds of the model.

MaxOverlayLen  == 6   \* longest overlay document of SpecConfig
MaxPartialLen  == 1   \* most characters an interrupted write_text leaves in args.gn

\* Program constants.
NumSignals == 3       \* for _ in range(3)
GraceSecs  == 10      \* proc.wait(10)

----------------------------------------------------------------------------
\* Text: a document is a sequence of characters.

Absent == "absent"
\* A file that does not exist: no text, since "absent" is not a character.
NoFile == <<"absent">>
NL     == "\n"
X64    == <<"x", "6", "4">>
X86    == <<"x", "8", "6">>
ARM64  == <<"a", "r", "m", "6", "4">>

\* str.replace(old, new): every non-overlapping occurrence, leftmost first.
RECURSIVE replace(_, _, _)
replace(s, old, new) ==
    IF Len(s) < Len(old) THEN s
    ELSE IF SubSeq(s, 1, Len(old)) = old
         THEN new \o replace(SubSeq(s, Len(old) + 1, Len(s)), old, new)
         ELSE <<Head(s)>> \o replace(Tail(s), old, new)

\* The overlay text after the architecture substitution.
WindowsFlags(overlay, x86, arm) ==
    IF x86 THEN replace(overlay, X64, X86)
    ELSE IF arm THEN replace(overlay, X64, ARM64)
    ELSE overlay

\* Seeded fault: the substitution is applied to the concatenated text.
GnFlagsWholeText(base, overlay, x86, arm) ==
    WindowsFlags((base \o <<NL>>) \o overlay, x86, arm)
\* The text written to args.gn.
GnFlags(base, overlay, x86, arm) ==
    (base \o <<NL>>) \o WindowsFlags(overlay, x86, arm)

----------------------------------------------------------------------------
\* _setup_rust_toolchain: the copy loop.

Bundles      == <<"x64", "x86", "arm">>     \* RUST_DIR_SRC64, RUST_DIR_SRC86, RUST_DIR_SRCARM
DIRS_TO_COPY == <<"bin", "lib">>

\* What rust_dir_src.glob('*/<dir>/*') finds in each source bundle, as paths
\* relative to the target dir (a directory is the set of the files below it).
BundleFiles(b, d) ==
    IF d = "bin"
    THEN CASE b = "x64" -> {"rustc.exe", "cargo.exe"}
           [] b = "x86" -> {"rustc.exe", "cargo.exe"}
           [] b = "arm" -> {"rustc.exe"}
    ELSE CASE b = "x64" -> {"rustlib/x86_64", "std.dll"}
           [] b = "x86" -> {"rustlib/i686", "std.dll"}
           [] b = "arm" -> {"rustlib/aarch64"}

\* The pairs (rust_dir_src, dir_to_copy) in the order of the two nested loops.
CopyPlan ==
    [i \in 1..(Len(Bundles) * Len(DIRS_TO_COPY)) |->
        <<Bundles[((i - 1) \div Len(DIRS_TO_COPY)) + 1],
          DIRS_TO_COPY[((i - 1) % Len(DIRS_TO_COPY)) + 1]>>]

\* The `continue` of the inner loop.
SkipBin(h64, b, d) == (d = "bin") /\ (h64 # (b = "x64"))

\* shutil.copy2 / shutil.copytree(dirs_exist_ok=True) of every entry found:
\* a file of the same path is overwritten, the others stay.
CopyInto(files, b, d) ==
    {f \in files : f.name \notin BundleFiles(b, d)}
        \cup {[name |-> n, origin |-> b] : n \in BundleFiles(b, d)}

\* One iteration of the inner loop on the toolchain t = [dirs, bin, lib].
CopyOne(t, h64, p) ==
    IF SkipBin(h64, p[1], p[2]) THEN t
    ELSE [dirs |-> t.dirs \cup {p[2]},
          bin  |-> IF p[2] = "bin" THEN CopyInto(t.bin, p[1], p[2]) ELSE t.bin,
          lib  |-> IF p[2] = "lib" THEN CopyInto(t.lib, p[1], p[2]) ELSE t.lib]

\* The first k iterations of the loop.
RECURSIVE CopyFirst(_, _, _)
CopyFirst(t, h64, k) ==
    IF k = 0 THEN t ELSE CopyOne(CopyFirst(t, h64, k - 1), h64, CopyPlan[k])

Toolchain == [dirs |-> dstDirs, bin |-> dstBin, lib |-> dstLib]

----------------------------------------------------------------------------
\* Inputs of the model.

ArgSets == [x86 : BOOLEAN, arm : BOOLEAN, ci : BOOLEAN,
            skip_gn : BOOLEAN, skip_bindgen : BOOLEAN]
NoArgs  == [x86 |-> FALSE, arm |-> FALSE, ci |-> FALSE,
            skip_gn |-> FALSE, skip_bindgen |-> FALSE]

\* The documents the pipeline model draws flags.gn and flags.windows.gn from.
SampleDocs == {[base |-> <<"k">>, overlay |-> <<"c", "x", "6", "4">>],
               [base |-> <<"x", "6", "4">>,
                overlay |-> <<"x", "6", "4", "x", "6", "4", "k">>]}

\* The outcomes of one run of a build command in _run_build_process.
RunOutcomes == {"ok", "vswhere_failed", "vcvars_missing", "nonzero"}
RunError(o) == CASE o = "vswhere_failed" -> "CalledProcessError"
                 [] o = "vcvars_missing" -> "VcvarsMissing"
                 [] o = "nonzero"        -> "CalledProcessError"

NoRustCall == [called |-> FALSE, returned |-> FALSE, copied |-> FALSE, smoke |-> "none",
               prev |-> "none"]
\* How the call before the one being made ended.
PrevRustCall == IF ~rustCall.called THEN "none"
                ELSE IF rustCall.returned THEN "returned" ELSE "raised"
NoGenSel   == [x86 |-> FALSE, arm |-> FALSE, base |-> <<>>, overlay |-> <<>>,
               complete |-> FALSE]

\* The directories of _make_tmp_paths: Path(os.environ['TMP']), Path(os.environ['TEMP'])
TmpVars == {"TMP", "TEMP"}

\* Nothing of the build step has been provisioned yet.
FreshWorkspace ==
    /\ marker = Absent /\ dstDirs = {} /\ dstBin = {} /\ dstLib = {}
    /\ ~outDir /\ argsGn = NoFile /\ ~gnExe /\ ~bindgenExe

ObsInit == genOwed = FALSE /\ fresh = FALSE /\ pkg = "none"

PatchInit ==
    /\ tarball = FALSE /\ pruned = {} /\ unremovable = {}
    /\ ugPatched = FALSE /\ winPatched = FALSE /\ domSubbed = FALSE

SupInit ==
    /\ proc = "none" /\ returncode = 0 /\ sigSent = 0 /\ graceElapsed = 0 /\ elapsed = 0
    /\ killCalled = FALSE /\ exitSig = -1 /\ timedOut = FALSE

Init ==
    /\ sourceTree = FALSE
    /\ host64 \in BOOLEAN
    /\ marker = Absent /\ dstDirs = {} /\ dstBin = {} /\ dstLib = {}
    /\ outDir = FALSE /\ argsGn = NoFile /\ gnExe = FALSE /\ bindgenExe = FALSE
    /\ \E d \in SampleDocs : baseDoc = d.base /\ overlayDoc = d.overlay
    /\ args = NoArgs /\ pc = "idle" /\ result = "none" /\ steps = <<>>
    /\ failed = "none"
    /\ rustCall = NoRustCall /\ genSel = NoGenSel
    /\ SupInit
    /\ ObsInit
    /\ tmpDirs = {}
    /\ PatchInit

----------------------------------------------------------------------------
\* main(): the steps of one invocation.

\* An uncaught exception or exit(1) ends the invocation.
Abort(step, how) ==
    /\ pc' = "done"
    /\ result' = how
    /\ failed' = IF failed = "none" THEN step ELSE failed

\* python onlybuild.py [--x86] [--arm] [--ci] [--skip-gn] [--skip-bindgen]
Invoke ==
    /\ pc \in {"idle", "done"}
    /\ \E a \in ArgSets : args' = a
    /\ pc' = "check_source" /\ result' = "running" /\ steps' = <<>>
    /\ failed' = "none"
    /\ proc' = "none" /\ returncode' = 0 /\ sigSent' = 0 /\ graceElapsed' = 0 /\ elapsed' = 0
    /\ killCalled' = FALSE /\ exitSig' = -1 /\ timedOut' = FALSE
    /\ fresh' = FreshWorkspace /\ pkg' = "none"
    /\ UNCHANGED <<genOwed, envVars, patchVars, fsVars, docVars, histVars>>

\* python onlyupdate.py: source_tree.mkdir(parents=True, exist_ok=True);
\* downloads_cache.mkdir(...); _make_tmp_paths()
UpdateStep ==
    /\ pc \in {"idle", "done"}
    /\ sourceTree' = TRUE
    /\ tmpDirs' = TmpVars
    /\ UNCHANGED <<host64, marker, dstDirs, dstBin, dstLib, outDir, argsGn, gnExe,
                   bindgenExe, docVars, runVars, histVars, supVars, obsVars, patchVars>>

\* Between two invocations the operator may edit the two source documents.
EditDocs ==
    /\ pc \in {"idle", "done"}
    /\ \E d \in SampleDocs :
         /\ <<d.base, d.overlay>> # <<baseDoc, overlayDoc>>
         /\ baseDoc' = d.base /\ overlayDoc' = d.overlay
    /\ UNCHANGED <<obsVars, envVars, patchVars, fsVars, runVars, histVars, supVars>>

\* Seeded fault: main() without the source-tree check.
CheckSourceUnguarded ==
    /\ pc = "check_source"
    /\ pc' = "rust"
    /\ UNCHANGED <<obsVars, envVars, patchVars, fsVars, docVars, args, result, steps, failed,
                   histVars, supVars>>
\* if not source_tree.exists(): ... exit(1)
CheckSource ==
    /\ pc = "check_source"
    /\ IF sourceTree
       THEN pc' = "rust" /\ UNCHANGED <<result, failed>>
       ELSE Abort("check_source", "exit1")
    /\ UNCHANGED <<obsVars, envVars, patchVars, fsVars, docVars, args, steps, histVars, supVars>>

\* Seeded fault: the "already set up" check of the toolchain is lost.
RustNeverSetUp == FALSE
\* if RUST_FLAG_FILE.exists()
RustAlreadySetUp == marker # Absent

\* _setup_rust_toolchain(source_tree)
SetupRustToolchain ==
    /\ pc = "rust"
    /\ steps' = Append(steps, "rust")
    /\ IF RustAlreadySetUp
       THEN \* already set up
            /\ rustCall' = [called |-> TRUE, returned |-> TRUE, copied |-> FALSE,
                            smoke |-> "none", prev |-> PrevRustCall]
            /\ pc' = "config"
            /\ UNCHANGED <<marker, dstDirs, dstBin, dstLib, result, failed>>
       ELSE \E o \in {"copy_error", "launch_error", "nonzero", "ok"} :
              \E k \in 0..Len(CopyPlan) :
                 LET done == IF o = "copy_error" THEN k ELSE Len(CopyPlan)
                     t    == CopyFirst(Toolchain, host64, done)
                 IN
                 /\ (o = "copy_error") => (k < Len(CopyPlan))
                 /\ (o # "copy_error") => (k = Len(CopyPlan))
                 /\ dstDirs' = t.dirs /\ dstBin' = t.bin /\ dstLib' = t.lib
                 \* open(RUST_FLAG_FILE, 'w') creates the file before rustc runs
                 /\ marker' = CASE o = "copy_error" -> marker
                                [] o = "ok"         -> "populated"
                                [] OTHER            -> "empty"
                 /\ rustCall' = [called |-> TRUE,
                                 returned |-> (o \in {"nonzero", "ok"}),
                                 copied |-> TRUE,
                                 smoke |-> IF o = "copy_error" THEN "none" ELSE o,
                                 prev |-> PrevRustCall]
                 /\ CASE o = "copy_error"   -> Abort("rust", "OSError")
                      [] o = "launch_error" -> Abort("rust", "FileNotFoundError")
                      \* subprocess.run without check=True: the exit status is dropped
                      [] o = "nonzero"      -> /\ pc' = "config"
                                               /\ result' = result
                                               /\ failed' = "rust"
                      [] o = "ok"           -> /\ pc' = "config"
                                               /\ UNCHANGED <<result, failed>>
    /\ UNCHANGED <<obsVars, envVars, patchVars, sourceTree, host64, outDir, argsGn, gnExe, bindgenExe, docVars,
                   args, genSel, supVars>>

\* Seeded fault: the "already set up" check of the build config is lost.
ConfigNeverSetUp == FALSE
\* if (build_dir / 'args.gn').exists()
ConfigAlreadySetUp == argsGn # NoFile

\* _setup_build_config(source_tree, args.x86, args.arm)
SetupBuildConfig ==
    /\ pc = "config"
    /\ steps' = Append(steps, "config")
    /\ outDir' = TRUE
    /\ IF ConfigAlreadySetUp
       THEN \* already set up
            /\ pc' = "bootstrap"
            /\ UNCHANGED <<argsGn, genSel, result, failed>>
       ELSE LET text == GnFlags(baseDoc, overlayDoc, args.x86, args.arm)
            IN \/ \* read_text raises
                  /\ Abort("config", "OSError")
                  /\ UNCHANGED <<argsGn, genSel>>
               \/ \* write_text opens (truncates) args.gn, writes it whole and closes it
                  /\ argsGn' = text
                  /\ genSel' = [x86 |-> args.x86, arm |-> args.arm, base |-> baseDoc,
                                overlay |-> overlayDoc, complete |-> TRUE]
                  /\ pc' = "bootstrap"
                  /\ UNCHANGED <<result, failed>>
               \/ \* write_text is interrupted after open(): the file stays, cut short
                  \E n \in 0..MaxPartialLen :
                     /\ n < Len(text)
                     /\ argsGn' = SubSeq(text, 1, n)
                     /\ genSel' = NoGenSel
                     /\ Abort("config", "OSError")
    /\ UNCHANGED <<obsVars, envVars, patchVars, sourceTree, host64, marker, dstDirs, dstBin, dstLib, gnExe,
                   bindgenExe, docVars, args, rustCall, supVars>>
\* _run_build_process(*args): the command runs in cmd.exe after vcvars; check=True.
\* A blocking step `step` that goes on at `next` when the command exits with 0
\* and raises otherwise.
RunBlocking(step, next, o) ==
    /\ steps' = Append(steps, step)
    /\ IF o = "ok"
       THEN pc' = next /\ UNCHANGED <<result, failed>>
       ELSE Abort(step, RunError(o))

\* Seeded fault: only the flag gates the branch, gn.exe is not looked at.
GnBootstrapFlagOnly ==
    /\ pc = "bootstrap"
    /\ IF args.skip_gn
       THEN /\ pc' = "bindgen"
            /\ UNCHANGED <<steps, result, failed, gnExe>>
       ELSE \E o \in RunOutcomes :
              /\ RunBlocking("bootstrap", "gn_gen", o)
              /\ gnExe' = (o = "ok")
    /\ UNCHANGED <<obsVars, envVars, patchVars, sourceTree, host64, marker, dstDirs, dstBin, dstLib, outDir, argsGn,
                   bindgenExe, docVars, args, histVars, supVars>>
\* if not args.skip_gn and not os.path.exists('out\\Default\\gn.exe'): bootstrap
GnBootstrap ==
    /\ pc = "bootstrap"
    /\ IF args.skip_gn \/ gnExe
       THEN /\ pc' = "bindgen"
            /\ UNCHANGED <<steps, result, failed, gnExe>>
       ELSE \E o \in RunOutcomes :
              /\ RunBlocking("bootstrap", "gn_gen", o)
              /\ gnExe' = (o = "ok")
    /\ UNCHANGED <<obsVars, envVars, patchVars, sourceTree, host64, marker, dstDirs, dstBin, dstLib, outDir, argsGn,
                   bindgenExe, docVars, args, histVars, supVars>>

\* Seeded fault: after gn gen the pipeline goes straight to ninja.
GnGenThenNinja ==
    /\ pc = "gn_gen"
    /\ \E o \in RunOutcomes :
         /\ RunBlocking("gn_gen", "ninja", o)
         /\ genOwed' = (o # "ok")
    /\ UNCHANGED <<fresh, pkg, envVars, patchVars, fsVars, docVars, args, histVars, supVars>>
\* the gn gen of the same branch
GnGen ==
    /\ pc = "gn_gen"
    /\ \E o \in RunOutcomes :
         /\ RunBlocking("gn_gen", "bindgen", o)
         /\ genOwed' = (o # "ok")
    /\ UNCHANGED <<fresh, pkg, envVars, patchVars, fsVars, docVars, args, histVars, supVars>>

\* if not args.skip_bindgen and not os.path.exists('...\\bin\\bindgen.exe'): build it
BuildBindgen ==
    /\ pc = "bindgen"
    /\ IF args.skip_bindgen \/ bindgenExe
       THEN /\ pc' = "ninja"
            /\ UNCHANGED <<steps, result, failed, bindgenExe>>
       ELSE \E o \in RunOutcomes :
              /\ RunBlocking("bindgen", "ninja", o)
              /\ bindgenExe' = (o = "ok")
    /\ UNCHANGED <<obsVars, envVars, patchVars, sourceTree, host64, marker, dstDirs, dstBin, dstLib, outDir, argsGn,
                   gnExe, docVars, args, histVars, supVars>>

\* else: _run_build_process(ninja ...), then 'Build completed successfully'
NinjaBlocking ==
    /\ pc = "ninja" /\ ~args.ci
    /\ \E o \in RunOutcomes :
         /\ steps' = Append(steps, "ninja")
         /\ IF o = "ok"
            THEN pc' = "done" /\ result' = "completed" /\ UNCHANGED failed
            ELSE Abort("ninja", RunError(o))
    /\ UNCHANGED <<obsVars, envVars, patchVars, fsVars, docVars, args, histVars, supVars>>

----------------------------------------------------------------------------
\* _run_build_process_timeout(*args, timeout): bounded mode.

\* _get_vcvars_path() and subprocess.Popen(...)
NinjaTimeoutStart ==
    /\ pc = "ninja" /\ args.ci
    /\ steps' = Append(steps, "ninja")
    /\ \E o \in RunOutcomes \ {"nonzero"} :
         IF o = "ok"
         THEN /\ proc' = "running" /\ pc' = "wait"
              /\ UNCHANGED <<result, failed>>
         ELSE /\ Abort("ninja", RunError(o))
              /\ UNCHANGED proc
    /\ UNCHANGED <<obsVars, envVars, patchVars, fsVars, docVars, args, histVars,
                   returncode, sigSent, graceElapsed, elapsed, killCalled, exitSig,
                   timedOut>>

\* The child ends by itself, at any moment of its life.
ChildExit ==
    /\ proc = "running"
    /\ proc' = "exited"
    /\ \E code \in {0, 1} : returncode' = code
    /\ exitSig' = sigSent
    /\ UNCHANGED <<obsVars, envVars, patchVars, fsVars, docVars, runVars, histVars, sigSent, graceElapsed, elapsed,
                   killCalled, timedOut>>

\* Seeded fault: the exit status of the child is not checked.
WaitReturnsUnchecked ==
    /\ pc = "wait" /\ proc = "exited"
    /\ pc' = "package"
    /\ UNCHANGED <<obsVars, envVars, patchVars, fsVars, docVars, args, result, steps, failed, histVars, supVars>>
\* proc.wait(timeout) returns: if proc.returncode != 0: raise RuntimeError('Build failed!')
WaitReturns ==
    /\ pc = "wait" /\ proc = "exited"
    /\ IF returncode # 0
       THEN Abort("ninja", "BuildFailed")
       ELSE pc' = "package" /\ UNCHANGED <<result, failed>>
    /\ UNCHANGED <<obsVars, envVars, patchVars, fsVars, docVars, args, steps, histVars, supVars>>

\* proc.wait(timeout) raises TimeoutExpired; print('Sending keyboard interrupt')
WaitTimesOut ==
    /\ pc = "wait" /\ proc = "running"
    /\ timedOut' = TRUE
    /\ pc' = "signal"
    /\ UNCHANGED <<obsVars, envVars, patchVars, fsVars, docVars, args, result, steps, failed, histVars,
                   proc, returncode, sigSent, graceElapsed, elapsed, killCalled, exitSig>>

\* GenerateConsoleCtrlEvent(1, proc.pid), whatever the state of the child
SendSignal ==
    /\ pc = "signal"
    /\ sigSent' = sigSent + 1
    /\ pc' = "sleep"
    /\ UNCHANGED <<obsVars, envVars, patchVars, fsVars, docVars, args, result, steps, failed, histVars,
                   proc, returncode, graceElapsed, elapsed, killCalled, exitSig,
                   timedOut>>

\* time.sleep(1), then the next turn of the loop or proc.wait(10)
Sleep ==
    /\ pc = "sleep"
    /\ elapsed' = elapsed + 1
    /\ pc' = IF sigSent < NumSignals THEN "signal" ELSE "grace"
    /\ UNCHANGED <<obsVars, envVars, patchVars, fsVars, docVars, args, result, steps, failed, histVars,
                   proc, returncode, sigSent, graceElapsed, killCalled, exitSig,
                   timedOut>>

\* one second of proc.wait(10) goes by with the child alive
GraceTick ==
    /\ pc = "grace" /\ proc = "running"
    /\ graceElapsed < GraceSecs
    /\ graceElapsed' = graceElapsed + 1
    /\ elapsed' = elapsed + 1
    /\ UNCHANGED <<obsVars, envVars, patchVars, fsVars, docVars, runVars, histVars,
                   proc, returncode, sigSent, killCalled, exitSig, timedOut>>

\* Seeded fault: proc.kill() in a `finally` instead of the `except`.
GraceReturnsKills ==
    /\ pc = "grace" /\ proc = "exited"
    /\ Abort("ninja", "KeyboardInterrupt")
    /\ graceElapsed' = 0
    /\ elapsed' = 0
    /\ killCalled' = TRUE
    /\ UNCHANGED <<obsVars, envVars, patchVars, fsVars, docVars, args, steps, histVars,
                   proc, returncode, sigSent, exitSig, timedOut>>
\* proc.wait(10) returns: raise KeyboardInterrupt
GraceReturns ==
    /\ pc = "grace" /\ proc = "exited"
    /\ Abort("ninja", "KeyboardInterrupt")
    /\ graceElapsed' = 0
    /\ elapsed' = 0
    /\ UNCHANGED <<obsVars, envVars, patchVars, fsVars, docVars, args, steps, histVars,
                   proc, returncode, sigSent, killCalled, exitSig, timedOut>>

\* Seeded fault: the child that outlives the grace period is reported as a failed
\* build and is not killed.
GraceExpiresNoKill ==
    /\ pc = "grace" /\ proc = "running"
    /\ graceElapsed = GraceSecs
    /\ Abort("ninja", "BuildFailed")
    /\ graceElapsed' = 0
    /\ elapsed' = 0
    /\ UNCHANGED <<obsVars, envVars, patchVars, fsVars, docVars, args, steps, histVars,
                   proc, returncode, sigSent, killCalled, exitSig, timedOut>>
\* Seeded fault: proc.wait(1) instead of proc.wait(10).
GraceExpiresEarly ==
    /\ pc = "grace" /\ proc = "running"
    /\ graceElapsed >= 1
    /\ killCalled' = TRUE
    /\ proc' = "killed"
    /\ Abort("ninja", "KeyboardInterrupt")
    /\ graceElapsed' = 0
    /\ elapsed' = 0
    /\ UNCHANGED <<obsVars, envVars, patchVars, fsVars, docVars, args, steps, histVars,
                   returncode, sigSent, exitSig, timedOut>>
\* proc.wait(10) raises: proc.kill(); raise KeyboardInterrupt (Popen.__exit__ waits)
GraceExpires ==
    /\ pc = "grace" /\ proc = "running"
    /\ graceElapsed = GraceSecs
    /\ killCalled' = TRUE
    /\ proc' = "killed"
    /\ Abort("ninja", "KeyboardInterrupt")
    /\ graceElapsed' = 0
    /\ elapsed' = 0
    /\ UNCHANGED <<obsVars, envVars, patchVars, fsVars, docVars, args, steps, histVars,
                   returncode, sigSent, exitSig, timedOut>>

\* os.chdir(_ROOT_DIR); subprocess.run([sys.executable, 'package.py']); success notice
Package ==
    /\ pc = "package"
    /\ steps' = Append(steps, "package")
    /\ pc' = "done" /\ result' = "completed"
    /\ \E o \in {"ok", "nonzero"} : pkg' = o
    /\ UNCHANGED <<genOwed, fresh, envVars, patchVars, fsVars, docVars, args, failed, histVars, supVars>>

----------------------------------------------------------------------------
Next ==
    \/ Invoke
    \/ UpdateStep
    \/ EditDocs
    \/ CheckSource
    \/ SetupRustToolchain
    \/ SetupBuildConfig
    \/ GnBootstrap
    \/ GnGen
    \/ BuildBindgen
    \/ NinjaBlocking
    \/ NinjaTimeoutStart
    \/ ChildExit
    \/ WaitReturns
    \/ WaitTimesOut
    \/ SendSignal
    \/ Sleep
    \/ GraceTick
    \/ GraceReturns
    \/ GraceExpires
    \/ Package

Spec == Init /\ [][Next]_vars

\* The statements of _run_build_process_timeout run one after the other in one
\* thread, and time.sleep(1), proc.wait(timeout) and proc.wait(10) all end: no
\* statement of the supervisor is delayed for ever.
SupervisorStep ==
    \/ WaitReturns \/ WaitTimesOut \/ SendSignal \/ Sleep
    \/ GraceTick \/ GraceReturns \/ GraceExpires

FairSpec == Spec /\ WF_vars(SupervisorStep)
----------------------------------------------------------------------------
\* The build-config generation on its own: every overlay document up to
\* MaxOverlayLen characters, every selector, one call of _setup_build_config.

OverlayChars == {"x", "6", "4"}
DocsUpTo(chars, n) == UNION {[1..k -> chars] : k \in 0..n}
ConfigBases == {<<>>, <<"k">>, <<"x", "6", "4">>, <<"k", "x", "6", "4", "k">>}

InitConfig ==
    /\ sourceTree = TRUE
    /\ host64 = TRUE
    /\ marker = "populated"
    /\ LET t == CopyFirst([dirs |-> {}, bin |-> {}, lib |-> {}], TRUE, Len(CopyPlan))
       IN dstDirs = t.dirs /\ dstBin = t.bin /\ dstLib = t.lib
    /\ outDir = FALSE /\ argsGn = NoFile /\ gnExe = FALSE /\ bindgenExe = FALSE
    /\ baseDoc \in ConfigBases
    /\ overlayDoc \in DocsUpTo(OverlayChars, MaxOverlayLen)
    /\ \E x \in BOOLEAN, a \in BOOLEAN : args = [NoArgs EXCEPT !.x86 = x, !.arm = a]
    /\ pc = "config" /\ result = "running" /\ steps = <<"rust">>
    /\ failed = "none"
    /\ rustCall = [called |-> TRUE, returned |-> TRUE, copied |-> TRUE, smoke |-> "ok",
                   prev |-> "none"]
    /\ genSel = NoGenSel
    /\ SupInit
    /\ ObsInit
    /\ tmpDirs = TmpVars
    /\ PatchInit

NextConfig == SetupBuildConfig

SpecConfig == InitConfig /\ [][NextConfig]_vars

----------------------------------------------------------------------------
\* The build step in an environment in which onlyupdate.py has not run: the
\* source tree is there, the directories named by TMP and TEMP are not.
InitEnv ==
    /\ sourceTree = TRUE
    /\ host64 = TRUE
    /\ marker = Absent /\ dstDirs = {} /\ dstBin = {} /\ dstLib = {}
    /\ outDir = FALSE /\ argsGn = NoFile /\ gnExe = FALSE /\ bindgenExe = FALSE
    /\ baseDoc = <<"k">> /\ overlayDoc = <<"c", "x", "6", "4">>
    /\ args = NoArgs /\ pc = "idle" /\ result = "none" /\ steps = <<>>
    /\ failed = "none"
    /\ rustCall = NoRustCall /\ genSel = NoGenSel
    /\ SupInit
    /\ ObsInit
    /\ tmpDirs = {}
    /\ PatchInit

SpecEnv == InitEnv /\ [][Next]_vars
----------------------------------------------------------------------------
\* onlypatch.py: main() of the patch step.

\* The entries of the pruning list.
PruningList == {"a.bin", "b.bin", "c.bin"}

buildVars == <<host64, marker, dstDirs, dstBin, dstLib, outDir, argsGn, gnExe, bindgenExe,
               docVars, args, histVars, supVars, obsVars, envVars>>

InitPatch ==
    /\ sourceTree \in BOOLEAN
    /\ host64 = TRUE
    /\ marker = Absent /\ dstDirs = {} /\ dstBin = {} /\ dstLib = {}
    /\ outDir = FALSE /\ argsGn = NoFile /\ gnExe = FALSE /\ bindgenExe = FALSE
    /\ baseDoc = <<"k">> /\ overlayDoc = <<"c", "x", "6", "4">>
    /\ args = NoArgs /\ pc = "idle" /\ result = "none" /\ steps = <<>>
    /\ failed = "none"
    /\ rustCall = NoRustCall /\ genSel = NoGenSel
    /\ SupInit
    /\ ObsInit
    /\ tmpDirs = TmpVars
    /\ PatchInit

\* python onlypatch.py [--tarball]
PatchInvoke ==
    /\ pc \in {"idle", "done"}
    /\ \E t \in BOOLEAN : tarball' = t
    /\ pc' = "check_source" /\ result' = "running" /\ steps' = <<>>
    /\ failed' = "none" /\ unremovable' = {}
    /\ UNCHANGED <<sourceTree, buildVars, pruned, ugPatched, winPatched, domSubbed>>

\* if not source_tree.exists(): ... exit(1)
PatchCheckSource ==
    /\ pc = "check_source"
    /\ IF sourceTree
       THEN pc' = "prune" /\ UNCHANGED <<result, failed>>
       ELSE Abort("check_source", "exit1")
    /\ UNCHANGED <<sourceTree, buildVars, steps, patchVars>>

\* Seeded fault: what prune_files returns is not looked at.
PruneUnchecked ==
    /\ pc = "prune"
    /\ steps' = Append(steps, "prune")
    /\ \E u \in SUBSET PruningList :
         /\ unremovable' = u
         /\ pruned' = pruned \cup (PruningList \ u)
    /\ pc' = "ug_patches"
    /\ UNCHANGED <<sourceTree, buildVars, result, failed, tarball, ugPatched, winPatched,
                   domSubbed>>
\* unremovable_files = prune_binaries.prune_files(...); if unremovable_files: exit(1)
Prune ==
    /\ pc = "prune"
    /\ steps' = Append(steps, "prune")
    /\ \E u \in SUBSET PruningList :
         /\ unremovable' = u
         /\ pruned' = pruned \cup (PruningList \ u)
         /\ IF u # {}
            THEN Abort("prune", "exit1")
            ELSE pc' = "ug_patches" /\ UNCHANGED <<result, failed>>
    /\ UNCHANGED <<sourceTree, buildVars, tarball, ugPatched, winPatched, domSubbed>>

\* patches.apply_patches(<ungoogled-chromium/patches series>, source_tree, ...)
ApplyUngoogledPatches ==
    /\ pc = "ug_patches"
    /\ steps' = Append(steps, "ug_patches")
    /\ \E ok \in BOOLEAN :
         IF ok
         THEN ugPatched' = TRUE /\ pc' = "win_patches" /\ UNCHANGED <<result, failed>>
         ELSE Abort("ug_patches", "CalledProcessError") /\ UNCHANGED ugPatched
    /\ UNCHANGED <<sourceTree, buildVars, tarball, pruned, unremovable, winPatched, domSubbed>>

\* patches.apply_patches(<patches series>, source_tree, ...)
ApplyWindowsPatches ==
    /\ pc = "win_patches"
    /\ steps' = Append(steps, "win_patches")
    /\ \E ok \in BOOLEAN :
         IF ok
         THEN winPatched' = TRUE /\ pc' = "domsub" /\ UNCHANGED <<result, failed>>
         ELSE Abort("win_patches", "CalledProcessError") /\ UNCHANGED winPatched
    /\ UNCHANGED <<sourceTree, buildVars, tarball, pruned, unremovable, ugPatched, domSubbed>>

\* domain_substitution.apply_substitution(...); success notice
SubstituteDomains ==
    /\ pc = "domsub"
    /\ steps' = Append(steps, "domsub")
    /\ \E ok \in BOOLEAN :
         IF ok
         THEN domSubbed' = TRUE /\ pc' = "done" /\ result' = "completed"
              /\ UNCHANGED failed
         ELSE Abort("domsub", "OSError") /\ UNCHANGED domSubbed
    /\ UNCHANGED <<sourceTree, buildVars, tarball, pruned, unremovable, ugPatched, winPatched>>

NextPatch ==
    \/ PatchInvoke
    \/ PatchCheckSource
    \/ Prune
    \/ ApplyUngoogledPatches
    \/ ApplyWindowsPatches
    \/ SubstituteDomains

SpecPatch == InitPatch /\ [][NextPatch]_vars

----------------------------------------------------------------------------
\* The claims.

\* C1: in bounded mode, a child that is alive at the deadline, ignores the first
\* two interrupt signals and ends by itself once the third has been sent makes
\* the supervisor end with the cancellation (KeyboardInterrupt), not with a
\* build failure, and proc.kill() is never called.
C1_GracefulAfterThirdSignal ==
    (timedOut /\ exitSig = NumSignals) =>
        /\ ~killCalled
        /\ proc = "exited"
        /\ pc \in {"sleep", "grace", "done"}
        /\ (pc = "done") => (result = "KeyboardInterrupt")

C1_Witness ==
    /\ pc = "done" /\ timedOut /\ exitSig = NumSignals /\ sigSent = NumSignals
    /\ result = "KeyboardInterrupt" /\ ~killCalled

\* The end of bounded mode for a child that never ended by itself.
C2_KilledAndCancelled ==
    (timedOut /\ exitSig = -1 /\ pc \notin {"signal", "sleep", "grace"}) =>
        /\ pc = "done"
        /\ killCalled /\ proc = "killed"
        /\ sigSent = NumSignals
        /\ result = "KeyboardInterrupt"

\* C2: in bounded mode, when the child is alive at the deadline and never ends
\* by itself (it ignores every signal and the whole grace period), the
\* supervisor only returns after it has killed the child, and it raises the
\* cancellation (KeyboardInterrupt), neither the build failure nor success;
\* and once the deadline has passed the supervisor does end.
C2_ForceKilledIsCancelled ==
    /\ []C2_KilledAndCancelled
    /\ (timedOut /\ pc # "done") ~> (pc = "done")

C2_Witness ==
    /\ pc = "done" /\ timedOut /\ exitSig = -1 /\ killCalled /\ proc = "killed"
    /\ result = "KeyboardInterrupt"

\* C3: in bounded mode, when the child ends before the deadline, status 0 lets
\* main() go on to its successful end with no signal sent and no kill, and any
\* other status raises the build failure, never the cancellation.
C3_ExitBeforeDeadline ==
    (proc = "exited" /\ ~timedOut /\ pc # "wait") =>
        /\ sigSent = 0 /\ ~killCalled
        /\ IF returncode = 0
           THEN pc = "package" \/ (pc = "done" /\ result = "completed")
           ELSE pc = "done" /\ result = "BuildFailed"

C3_Witness ==
    /\ proc = "exited" /\ ~timedOut /\ pc = "done"
    /\ returncode # 0 /\ result = "BuildFailed"

\* C4: a call of _setup_rust_toolchain that follows a call that returned leaves
\* the destination toolchain directory as it is, copies nothing and does not
\* run the rustc --version smoke test.
C4_SecondEnsureIsNoOp ==
    [][(pc = "rust" /\ rustCall.called /\ rustCall.returned) =>
          /\ dstDirs' = dstDirs /\ dstBin' = dstBin /\ dstLib' = dstLib
          /\ marker' = marker
          /\ ~rustCall'.copied /\ rustCall'.smoke = "none"
          /\ rustCall'.returned]_vars

C4_Witness ==
    /\ pc = "config" /\ rustCall.prev = "returned"
    /\ ~rustCall.copied /\ rustCall.smoke = "none" /\ dstBin # {}

\* C5: when the rustc --version smoke test fails (rustc cannot be launched or
\* exits non-zero), the provisioning raises to main() and leaves no
\* version-marker file behind.
C5_SmokeFailureIsReported ==
    (rustCall.smoke \in {"launch_error", "nonzero"}) =>
        /\ ~rustCall.returned
        /\ marker = Absent

\* C6: once the toolchain is provisioned, every file of the destination bin
\* directory comes from one source bundle, the one of the host architecture
\* (x64 on a 64-bit host).
C6_BinFromHostBundleOnly ==
    (marker # Absent) =>
        \E b \in {Bundles[i] : i \in 1..Len(Bundles)} :
            /\ host64 => (b = "x64")
            /\ \A f \in dstBin : f.origin = b

\* C7: once out/Default/args.gn exists, no step changes its content, whatever
\* the documents and the selector of the later calls.
C7_ConfigNeverOverwritten ==
    [][(argsGn # NoFile) => (argsGn' = argsGn)]_vars

C7_Witness ==
    /\ pc = "bootstrap" /\ argsGn # NoFile
    /\ <<baseDoc, overlayDoc>> # <<genSel.base, genSel.overlay>>
    /\ argsGn # GnFlags(baseDoc, overlayDoc, args.x86, args.arm)

\* The places where the default architecture token starts in a text.
Occurrences(s) == {i \in 1..(Len(s) - 2) : SubSeq(s, i, i + 2) = X64}
\* r is s with every default token replaced by tok and nothing else changed.
IsSubstituted(r, s, tok) ==
    LET occ      == Occurrences(s)
        grow     == Len(tok) - Len(X64)
        shift(i) == grow * Cardinality({j \in occ : j < i})
        inOcc(i) == \E j \in occ : j <= i /\ i <= j + 2
    IN /\ Len(r) = Len(s) + grow * Cardinality(occ)
       /\ \A j \in occ : SubSeq(r, j + shift(j), j + shift(j) + Len(tok) - 1) = tok
       /\ \A i \in 1..Len(s) : ~inOcc(i) => r[i + shift(i)] = s[i]
       /\ Occurrences(r) = {}

\* C8: for the selectors x86 and ARM64 the generated config is the base text, a
\* newline, and the overlay text with the requested architecture token in the
\* place of every default token; the base part is the same for every selector.
C8_ArchSubstitution ==
    (argsGn # NoFile /\ genSel.complete) =>
        LET n    == Len(genSel.base) + 1
            rest == SubSeq(argsGn, n + 1, Len(argsGn))
        IN /\ Len(argsGn) >= n
           /\ SubSeq(argsGn, 1, n) = genSel.base \o <<NL>>
           /\ genSel.x86 => IsSubstituted(rest, genSel.overlay, X86)
           /\ (genSel.arm /\ ~genSel.x86) => IsSubstituted(rest, genSel.overlay, ARM64)

C8_Witness ==
    /\ argsGn # NoFile /\ genSel.complete /\ genSel.arm /\ ~genSel.x86
    /\ Cardinality(Occurrences(genSel.overlay)) = 2
    /\ Occurrences(genSel.base) # {}

\* C9: with the source tree absent, an invocation ends with exit code 1, calls
\* neither the provisioning nor the config generation nor a build command, and
\* creates no directory and no file.
C9_NoSourceTreeNoEffect ==
    (~sourceTree) =>
        /\ pc \in {"idle", "check_source", "done"}
        /\ (pc = "done") => (result = "exit1")
        /\ steps = <<>>
        /\ marker = Absent /\ dstDirs = {} /\ dstBin = {} /\ dstLib = {}
        /\ ~outDir /\ argsGn = NoFile /\ ~gnExe /\ ~bindgenExe

C9_Witness ==
    ~sourceTree /\ pc = "done" /\ result = "exit1"

\* C10: once a step of the pipeline has failed, the invocation is over: no
\* later step runs and the invocation does not end as completed.
C10_FailureAborts ==
    (failed # "none") => (pc = "done" /\ result # "completed")
\* C19: whenever bounded mode is over, on each of its ways out (success, build
\* failure, cancellation after a voluntary exit, cancellation after the kill),
\* the child process has ended: a child is only running while the supervisor
\* is still inside _run_build_process_timeout.
C19_ChildEndedOnReturn ==
    /\ (proc = "running") => (pc \in {"wait", "signal", "sleep", "grace"})
    /\ (pc \in {"package", "done"} /\ proc # "none") => (proc \in {"exited", "killed"})

C19_Witness ==
    /\ pc = "done" /\ killCalled /\ proc = "killed" /\ timedOut

\* C20: the supervisor sends no interrupt signal to a child that has already
\* ended: when the child ends after the first or the second signal, the
\* signals still left of the loop of 3 are not sent.
C20_NoSignalAfterExit ==
    (timedOut /\ exitSig >= 1) => (sigSent = exitSig)

\* C15: after the deadline the supervisor sends the interrupt signal at most 3
\* times, one second apart (the k-th signal k-1 seconds after the deadline),
\* then waits a grace period of at most 10 seconds, and calls proc.kill() only
\* on a child still running when all 3 signals were sent and the 10 seconds are
\* over; a child that exited within the grace period is never killed.
C15_EscalationState ==
    /\ sigSent <= NumSignals
    /\ (sigSent > 0) => timedOut
    /\ (pc = "grace") => /\ sigSent = NumSignals
                         /\ graceElapsed <= GraceSecs
                         /\ elapsed = NumSignals + graceElapsed
    /\ killCalled => (proc = "killed" /\ exitSig = -1 /\ sigSent = NumSignals)

C15_EscalationStep ==
    /\ (sigSent' = sigSent + 1) => (pc = "signal" /\ timedOut /\ elapsed = sigSent)
    /\ (killCalled' /\ ~killCalled) => /\ proc = "running"
                                       /\ sigSent = NumSignals
                                       /\ graceElapsed = GraceSecs
                                       /\ elapsed = NumSignals + GraceSecs
    /\ (pc = "grace" /\ proc = "exited") => (killCalled' = killCalled)

C15_SignalsThenGraceThenKill ==
    []C15_EscalationState /\ [][C15_EscalationStep]_vars

C15_Witness ==
    /\ pc = "grace" /\ proc = "running"
    /\ sigSent = NumSignals /\ graceElapsed = GraceSecs
    /\ elapsed = NumSignals + GraceSecs

\* C16: the bootstrap step runs exactly when --skip-gn is not given and
\* out/Default/gn.exe is absent at the check, and gn gen runs right after it
\* exactly when it succeeded; with the flag given or gn.exe present both are
\* skipped; gn gen never runs unless the bootstrap ran and succeeded in the same
\* invocation; the main compile is started whatever the skip flags are.
Last(s) == s[Len(s)]

C16_PairState ==
    /\ (pc = "gn_gen") => (steps # <<>> /\ Last(steps) = "bootstrap" /\ gnExe)
    /\ \A i \in 1..Len(steps) :
         (steps[i] = "gn_gen") => (i > 1 /\ steps[i - 1] = "bootstrap")
    /\ (result = "completed") => (\E i \in 1..Len(steps) : steps[i] = "ninja")

C16_PairStep ==
    /\ (pc = "bootstrap") =>
          /\ (steps' = Append(steps, "bootstrap")) <=> (~args.skip_gn /\ ~gnExe)
          /\ (args.skip_gn \/ gnExe) => (pc' = "bindgen" /\ steps' = steps)
          /\ (pc' = "gn_gen") <=> (steps' # steps /\ gnExe')
    /\ (pc = "gn_gen") => (steps' = Append(steps, "gn_gen"))
    /\ (pc = "bindgen" /\ (args.skip_bindgen \/ bindgenExe)) => (pc' = "ninja")
    /\ (pc = "ninja") => (steps' = Append(steps, "ninja"))

C16_BootstrapAndGenAsPair ==
    []C16_PairState /\ [][C16_PairStep]_vars

C16_Witness ==
    /\ pc = "bindgen" /\ ~args.skip_gn
    /\ Len(steps) >= 2
    /\ Last(steps) = "gn_gen" /\ steps[Len(steps) - 1] = "bootstrap"

Ran(step) == \E i \in 1..Len(steps) : steps[i] = step

\* C11: package.py is run only with --ci and only after the ninja child exited
\* with status 0 before the deadline (never after a failed, cancelled or killed
\* compile); and when package.py fails, the invocation reports it: it does not
\* end like one whose packaging succeeded (success notice, exit status 0).
C11_PackageAfterCompileAndReported ==
    /\ Ran("package") =>
          (args.ci /\ proc = "exited" /\ returncode = 0 /\ ~timedOut /\ ~killCalled)
    /\ (pc = "done" /\ pkg = "nonzero") => (result # "completed")

\* C12: an invocation without skip flags on a workspace with no provisioning runs
\* its steps in the order toolchain, config, bootstrap, gn gen, bindgen, ninja,
\* each one started with what the one before leaves on disk (the marker file,
\* args.gn, gn.exe, bindgen.exe), and has run all six when it completes.
PipelineOrder == <<"rust", "config", "bootstrap", "gn_gen", "bindgen", "ninja", "package">>

C12_FreshRunOrder ==
    (fresh /\ ~args.skip_gn /\ ~args.skip_bindgen) =>
        /\ Len(steps) <= Len(PipelineOrder)
        /\ \A i \in 1..Len(steps) : steps[i] = PipelineOrder[i]
        /\ Ran("config") => (marker # Absent)
        /\ Ran("bootstrap") => (argsGn # NoFile)
        /\ Ran("gn_gen") => gnExe
        /\ Ran("ninja") => bindgenExe
        /\ (result = "completed") => Ran("ninja")

C12_Witness ==
    /\ fresh /\ ~args.skip_gn /\ ~args.skip_bindgen /\ ~args.ci
    /\ result = "completed"
    /\ steps = <<"rust", "config", "bootstrap", "gn_gen", "bindgen", "ninja">>

\* C13: whenever a build command (bootstrap, gn gen, bindgen, ninja) has been
\* launched, the directories named by TMP and TEMP both exist.
C13_TmpDirsBeforeBuildCommand ==
    (Ran("bootstrap") \/ Ran("gn_gen") \/ Ran("bindgen") \/ Ran("ninja"))
        => (tmpDirs = TmpVars)

\* C18: when the last gn gen failed after a successful bootstrap, an invocation
\* without skip flags that gets to ninja has run gn gen before it.
C18_ReinvocationRunsGenAgain ==
    (genOwed /\ ~args.skip_gn /\ ~args.skip_bindgen /\ Ran("ninja")) => Ran("gn_gen")

\* C17: at every point of every execution out/Default/args.gn is either absent
\* or holds the whole text (base, newline, overlay with the architecture of the
\* call that wrote it), so that no ensure call skips the generation on account
\* of a cut-short or empty file.
C17_ConfigWrittenAtomically ==
    (argsGn # NoFile) =>
        /\ genSel.complete
        /\ argsGn = GnFlags(genSel.base, genSel.overlay, genSel.x86, genSel.arm)

\* C14: the patch step runs prune, the ungoogled-chromium patch series, the
\* Windows patch series and the domain substitution in that order, each one only
\* after the one before it completed; when prune_files reports an unremovable
\* file the step exits with code 1 with no patch applied and no domain
\* substitution done by it.
PatchOrder == <<"prune", "ug_patches", "win_patches", "domsub">>

C14_OrderState ==
    /\ Len(steps) <= Len(PatchOrder)
    /\ \A i \in 1..Len(steps) : steps[i] = PatchOrder[i]
    /\ (pc \in {"ug_patches", "win_patches", "domsub"}) =>
          (failed = "none" /\ unremovable = {})
    /\ Ran("ug_patches") => (unremovable = {})
    /\ Ran("win_patches") => ugPatched
    /\ Ran("domsub") => winPatched
    /\ (unremovable # {}) =>
          (pc = "done" /\ result = "exit1" /\ steps = <<"prune">>)
    /\ (result = "completed") => (steps = PatchOrder /\ domSubbed)

C14_OrderStep ==
    (pc = "prune" /\ unremovable' # {}) =>
        /\ pc' = "done" /\ result' = "exit1"
        /\ UNCHANGED <<ugPatched, winPatched, domSubbed>>

C14_PatchOrderAndPruneGate ==
    []C14_OrderState /\ [][C14_OrderStep]_vars

C14_Witness ==
    /\ pc = "done" /\ result = "exit1" /\ unremovable = {"b.bin"}
    /\ steps = <<"prune">> /\ ~ugPatched /\ ~winPatched /\ ~domSubbed

====
